---------------------------- MODULE Spec2Model ----------------------------
(***************************************************************************)
(* A model of funda_scraper.scrape.FundaScraper: the query-URL builder,    *)
(* the link-extraction pipeline (remove_duplicates, fix_link) and the      *)
(* fetch orchestration of one run (sequential list pages, pooled detail    *)
(* pages, storage through the file repository).                            *)
(*                                                                         *)
(* Strings are sequences of tokens: a token is a run of characters that    *)
(* the code never looks inside ("koop", "%22", "&price="), and every       *)
(* character the code or a claim singles out ("/", "-", ",", "?", "#",     *)
(* the raw quote and the raw brackets) is a token of its own.              *)
(***************************************************************************)
EXTENDS Integers, Sequences, FiniteSets, TLC

\* ------------------------------------------------------------------ bounds
MaxPages == 2      \* largest number_of_pages of a run
MaxStart == 2      \* largest page_start of a run
Pools    == 2      \* mp.cpu_count() of the host
MaxLen   == 5      \* longest list handed to remove_duplicates on its own

\* -------------------------------------------------------- python helpers
\* Optional values: None is the empty tuple, a set value v is <<v>>.
None == <<>>
Some(v) == <<v>>

\* Python truthiness of an Optional[int]: None and 0 are falsy.
Truthy(o) == o # None /\ o[1] # 0

\* f"{x}" of an Optional[int] bound after the `"" if x is None else x` test.
Render(o) == IF o = None THEN <<>> ELSE <<ToString(o[1])>>

RECURSIVE IndexOf(_, _, _)
\* The least position >= from of s holding a token of set seps, or Len(s)+1.
IndexOf(s, seps, from) ==
    IF from > Len(s) THEN Len(s) + 1
    ELSE IF s[from] \in seps THEN from
    ELSE IndexOf(s, seps, from + 1)

RECURSIVE Split(_, _)
\* str.split(sep): the pieces of s between the sep tokens (always >= 1 piece).
Split(s, sep) ==
    LET k == IndexOf(s, {sep}, 1)
    IN  IF k > Len(s) THEN <<s>>
        ELSE <<SubSeq(s, 1, k - 1)>> \o Split(SubSeq(s, k + 1, Len(s)), sep)

RECURSIVE Join(_, _)
\* sep.join(parts)
Join(sep, parts) ==
    IF Len(parts) = 0 THEN <<>>
    ELSE IF Len(parts) = 1 THEN parts[1]
    ELSE parts[1] \o <<sep>> \o Join(sep, Tail(parts))

\* list.pop(i) with a 0-based index i: the list without that element.
PopAt(l, i) == SubSeq(l, 1, i) \o SubSeq(l, i + 2, Len(l))

\* list.insert(i, x) with a 0-based index i <= len.
InsertAt(l, i, x) == SubSeq(l, 1, i) \o <<x>> \o SubSeq(l, i + 1, Len(l))

\* Whether the token sequence part occurs contiguously in s.
Contains(s, part) ==
    \E k \in 0..(Len(s) - Len(part)) : SubSeq(s, k + 1, k + Len(part)) = part

\* ------------------------------------------------------ remove_duplicates
RECURSIVE FromKeys(_, _)
\* OrderedDict.fromkeys(lst): the keys in order of first insertion; a key
\* already present keeps its place.
FromKeys(lst, keys) ==
    IF lst = <<>> THEN keys
    ELSE FromKeys(Tail(lst),
                  IF \E k \in 1..Len(keys) : keys[k] = Head(lst)
                  THEN keys ELSE Append(keys, Head(lst)))

RECURSIVE FromKeysLast(_, _)
\* Mutant of FromKeys: a repeated key moves to the end (keeps last occurrence).
FromKeysLast(lst, keys) ==
    IF lst = <<>> THEN keys
    ELSE FromKeysLast(Tail(lst),
                      Append(SelectSeq(keys, LAMBDA k : k # Head(lst)), Head(lst)))

remove_duplicates_last(lst) == FromKeysLast(lst, <<>>)

remove_duplicates(lst) == FromKeys(lst, <<>>)

\* ---------------------------------------------------------------- fix_link
\* urlparse(link): scheme, netloc, then the path up to the first "?" or "#",
\* the query between "?" and "#", the fragment after "#".
urlparse(link) ==
    LET rest == SubSeq(link, 4, Len(link))
        h    == IndexOf(rest, {"#"}, 1)
        pq   == SubSeq(rest, 1, h - 1)
        q    == IndexOf(pq, {"?"}, 1)
    IN  [scheme   |-> link[1],
         netloc   |-> link[3],
         path     |-> SubSeq(pq, 1, q - 1),
         query    |-> SubSeq(pq, q + 1, Len(pq)),
         fragment |-> SubSeq(rest, h + 1, Len(rest))]

\* urlunparse((scheme, netloc, path, "", "", "")): a path that does not start
\* with "/" gets one when there is a netloc.
urlunparse(scheme, netloc, path) ==
    <<scheme, "://", netloc>>
        \o (IF path # <<>> /\ path[1] # "/" THEN <<"/">> ELSE <<>>) \o path

\* fix_link raises IndexError (pop index out of range) on a path with fewer
\* than six segments.
fix_link_raises(link) == Len(Split(urlparse(link).path, "/")) < 6

fix_link(link) ==
    LET link_url         == urlparse(link)
        link_path        == Split(link_url.path, "/")
        property_id      == link_path[6]
        path1            == PopAt(link_path, 5)
        property_address == InsertAt(Split(path1[5], "-"), 1, property_id)
        path2            == SubSeq(PopAt(path1, 4), 3, 4)
        path3            == path2 \o <<Join("-", property_address),
                                       <<"?", "old_ldp=true">> >>
    IN  urlunparse(link_url.scheme, link_url.netloc, Join("/", path3))


\* ------------------------------------------------------------ SearchRequest
\* config.base_url
base_url == "https://www.funda.nl"

\* SearchRequest.to_buy
to_buy(sr) == sr.want_to = "buy"

\* SearchRequest.check_days_since: the value written after publication_date=
check_days_since(sr) == ToString(sr.days_since[1])

\* SearchRequest.sort_by: the sort key written between the quotes
sort_by(sr) == sr.sort[1]

\* SearchRequest validation: positive paging, min_price <= max_price when both
\* are set, non-negative bounds.
ValidRequest(sr) ==
    /\ sr.want_to \in {"buy", "rent"}
    /\ sr.page_start >= 1 /\ sr.number_of_pages >= 1
    /\ \A o \in {sr.min_price, sr.max_price, sr.min_floor_area, sr.max_floor_area} :
          o # None => o[1] >= 0
    /\ (sr.min_price # None /\ sr.max_price # None) => sr.min_price[1] <= sr.max_price[1]

\* ------------------------------------------------------ _build_main_query_url
\* `if self.search_request.property_type:` (None and "" are both falsy)
HasPropertyType(sr) == sr.property_type # <<>>

ObjectTypeParam(sr) ==
    LET property_types == Split(sr.property_type, ",")
        formatted == [k \in 1..Len(property_types) |->
                         <<"%22">> \o property_types[k] \o <<"%22">>]
    IN  <<"&object_type=", "%5B">> \o Join(",", formatted) \o <<"%5D">>

\* f'{main_url}&availability=%5B"unavailable"%5D'
AvailabilityParam == <<"&availability=", "%5B", "\"", "unavailable", "\"", "%5D">>

HasPrice(sr) == sr.min_price # None \/ sr.max_price # None

PriceParam(sr) ==
    <<"&price=", "%22">> \o Render(sr.min_price) \o <<"-">>
        \o Render(sr.max_price) \o <<"%22">>

\* `if self.search_request.min_floor_area or self.search_request.max_floor_area:`
HasFloorArea(sr) == Truthy(sr.min_floor_area) \/ Truthy(sr.max_floor_area)

FloorAreaParam(sr) ==
    <<"&floor_area=", "%22">> \o Render(sr.min_floor_area) \o <<"-">>
        \o Render(sr.max_floor_area) \o <<"%22">>

build_main_query_url(sr) ==
    LET query == IF to_buy(sr) THEN "koop" ELSE "huur"
        u0 == <<base_url, "/zoeken/", query, "?selected_area=",
                "%5B", "%22", sr.area, "%22", "%5D">>
        u1 == IF HasPropertyType(sr) THEN u0 \o ObjectTypeParam(sr) ELSE u0
        u2 == IF sr.find_sold THEN u1 \o AvailabilityParam ELSE u1
        u3 == IF HasPrice(sr) THEN u2 \o PriceParam(sr) ELSE u2
        u4 == IF sr.days_since # None
              THEN u3 \o <<"&publication_date=", check_days_since(sr)>> ELSE u3
        u5 == IF HasFloorArea(sr) THEN u4 \o FloorAreaParam(sr) ELSE u4
        u6 == IF sr.sort # None
              THEN u5 \o <<"&sort=", "%22", sort_by(sr), "%22">> ELSE u5
    IN  u6

\* f"{main_url}&search_result={i}"
ListPageUrl(main_url, i) == main_url \o <<"&search_result=", ToString(i)>>


\* ------------------------------------------------------------ page fixtures
\* A raw listing URL as found in a list page's JSON-LD item list.
RawUrl(street, id, suffix) ==
    <<"https", "://", "www.funda.nl", "/", "detail", "/", "koop", "/",
      "amsterdam", "/", "huis", "-", street, "-", "1", "/", id, "/">> \o suffix

UrlA == RawUrl("astraat", "101", <<>>)
UrlB == RawUrl("bstraat", "102", <<>>)
UrlC == RawUrl("cstraat", "103", <<>>)
UrlD == RawUrl("dstraat", "104", <<>>)
UrlE == RawUrl("estraat", "105", <<>>)
\* UrlA again, with a tracking query and a fragment
UrlAq == RawUrl("astraat", "101", <<"?", "utm=x", "#", "fotos">>)
\* a listing URL of another scheme: too few path segments
UrlShort == <<"https", "://", "www.funda.nl", "/", "koop", "/", "amsterdam", "/">>

\* A response body: the status of the response it came with, what the HTML
\* holds ("ok": an ld+json block with an item list; "noblock": no such script
\* tag; "malformed": a block json.loads rejects; "detail", "error"), and the
\* item URLs (a detail or error page: the URL it was served for).
Body(status, kind, urls) == [status |-> status, kind |-> kind, urls |-> urls]

NoBody == Body(0, "none", <<>>)

ListResponses ==
    { Body(200, "ok", u) : u \in { <<UrlA, UrlB, UrlC>>, <<UrlC, UrlD, UrlE>>,
                                    <<UrlA, UrlAq>>, <<UrlShort>>, <<>> } }
        \cup { Body(200, "noblock", <<>>), Body(200, "malformed", <<>>),
               Body(404, "noblock", <<>>) }

DetailResponses(link) ==
    { Body(200, "detail", <<link>>), Body(404, "error", <<link>>) }

\* ------------------------------------------------------------ FileRepository
\* self.run_id = str(uuid.uuid1()): unlike every run_id already on disk
run_id == "run-1"

PageRecord(run, kind, index, body) ==
    [run |-> run, kind |-> kind, index |-> index, body |-> body]

\* what an earlier run left in the repository
OtherRunRecords ==
    { PageRecord("run-0", "list", 1, Body(200, "ok", <<UrlB>>)),
      PageRecord("run-0", "detail", 0, Body(200, "detail", <<fix_link(UrlB)>>)) }

SavePage(store, kind, body, index, run) ==
    { r \in store : ~(r.run = run /\ r.kind = kind /\ r.index = index) }
        \cup { PageRecord(run, kind, index, body) }

save_list_page(store, body, index, run) == SavePage(store, "list", body, index, run)

save_detail_page(store, body, index, run) == SavePage(store, "detail", body, index, run)

Records(store, kind, run) == { r \in store : r.run = run /\ r.kind = kind }

RECURSIVE InIndexOrder(_)
InIndexOrder(recs) ==
    IF recs = {} THEN <<>>
    ELSE LET r == CHOOSE x \in recs : \A y \in recs : x.index <= y.index
         IN  <<r.body>> \o InIndexOrder(recs \ {r})

\* get_list_pages(run_id): the bodies of the run's list pages, in index order
get_list_pages(store, run) == InIndexOrder(Records(store, "list", run))


\* --------------------------------------------------------------------- state
VARIABLES
    pc,         \* the phase of the run (or the step of a function under test)
    sr,         \* self.search_request
    main_url,   \* main_url of _get_list_pages: the built query URL
    i,          \* the loop variable of _get_list_pages
    inflight,   \* the requests issued and not yet answered
    gets,       \* every HTTP GET issued so far, in order: [kind, url]
    store,      \* the file repository: a set of page records
    fixed_urls, \* fixed_urls of _get_detail_pages
    tasks,      \* the futures of process_map, one per fixed url: [st, body]
    k,          \* the number of detail pages saved by the enumerate loop
    err,        \* the error the run ended with ("" when none)
    lst,        \* remove_duplicates on its own: the input list
    out,        \* remove_duplicates(lst)
    again       \* remove_duplicates(out)

vars == <<pc, sr, main_url, i, inflight, gets, store, fixed_urls, tasks, k,
          err, lst, out, again>>

Request(area, want_to, find_sold, page_start, number_of_pages, min_price, max_price, min_floor_area, max_floor_area, days_since, sort, property_type) ==
    [area |-> area, want_to |-> want_to, find_sold |-> find_sold,
     page_start |-> page_start, number_of_pages |-> number_of_pages,
     min_price |-> min_price, max_price |-> max_price,
     min_floor_area |-> min_floor_area, max_floor_area |-> max_floor_area,
     days_since |-> days_since, sort |-> sort, property_type |-> property_type]

\* the requests of the runs: any paging, one set of filters
RunRequests ==
    { Request("amsterdam", "buy", FALSE, s, n, Some(500), None, None, None,
              None, None, <<>>) : s \in 1..MaxStart, n \in 1..MaxPages }

IdleState ==
    /\ pc = "Idle"
    /\ main_url = <<>>
    /\ i = 0
    /\ inflight = {}
    /\ gets = <<>>
    /\ store = OtherRunRecords
    /\ fixed_urls = <<>>
    /\ tasks = <<>>
    /\ k = 0
    /\ err = ""

\* FundaScraper.__init__, before run() is called
Init ==
    /\ sr \in RunRequests
    /\ IdleState
    /\ lst = <<>> /\ out = <<>> /\ again = <<>>

\* ------------------------------------------------------------ _get_list_pages
\* the end of range(page_start, page_start + number_of_pages), off the request
ListLoopEndShort(r) == r.number_of_pages

ListLoopEnd(r) == r.page_start + r.number_of_pages

\* run() -> _get_pages() -> _get_list_pages(): the defaults and the main URL
Run ==
    /\ pc = "Idle"
    /\ pc' = "FetchingListPages"
    /\ main_url' = build_main_query_url(sr)
    /\ i' = sr.page_start
    /\ UNCHANGED <<sr, inflight, gets, store, fixed_urls, tasks, k, err, lst, out, again>>

\* requests.get(url, headers=config.header) is called for page i
ListGet ==
    /\ pc = "FetchingListPages"
    /\ inflight = {}
    /\ i < ListLoopEnd(sr)
    /\ inflight' = { ListPageUrl(main_url, i) }
    /\ gets' = Append(gets, [kind |-> "list", url |-> ListPageUrl(main_url, i)])
    /\ UNCHANGED <<pc, sr, main_url, i, store, fixed_urls, tasks, k, err, lst, out, again>>

\* requests.get returns a response, of whatever status: its text is saved
\* under i and the loop goes on
ListResponse ==
    /\ pc = "FetchingListPages"
    /\ inflight # {}
    /\ \E resp \in ListResponses :
          store' = save_list_page(store, resp, i, run_id)
    /\ i' = i + 1
    /\ inflight' = {}
    /\ UNCHANGED <<pc, sr, main_url, gets, fixed_urls, tasks, k, err, lst, out, again>>

\* requests.get raises (no connection, timeout): the exception leaves run()
ListRaise ==
    /\ pc = "FetchingListPages"
    /\ inflight # {}
    /\ inflight' = {}
    /\ pc' = "Failed"
    /\ err' = "FetchError"
    /\ UNCHANGED <<sr, main_url, i, gets, store, fixed_urls, tasks, k, lst, out, again>>

\* ---------------------------------------------------------- _get_detail_pages
\* soup.find_all(...)[0] raises IndexError without an ld+json script tag,
\* json.loads raises on a malformed one
ParseRaisesOnMalformedOnly(page) == page.kind = "malformed"

ParseRaises(page) == page.kind # "ok"

RECURSIVE ItemUrls(_)
\* urls += [item["url"] for item in json_data["itemListElement"]], page by page
ItemUrls(pages) ==
    IF pages = <<>> THEN <<>>
    ELSE (IF Head(pages).kind = "ok" THEN Head(pages).urls ELSE <<>>)
             \o ItemUrls(Tail(pages))

FixAll(urls) == [t \in 1..Len(urls) |-> fix_link(urls[t])]

\* the list loop is over; _get_detail_pages reads the stored list pages,
\* parses them, removes the duplicates, fixes the links and hands them to
\* process_map
ExtractLinks ==
    /\ pc = "FetchingListPages"
    /\ inflight = {}
    /\ i >= ListLoopEnd(sr)
    /\ pc' = "ExtractingLinks"
    /\ UNCHANGED <<sr, main_url, i, inflight, gets, store, fixed_urls, tasks, k, err, lst, out, again>>

Task(st, body) == [st |-> st, body |-> body]

DispatchDetailPages ==
    /\ pc = "ExtractingLinks"
    /\ LET list_pages == get_list_pages(store, run_id)
           urls       == remove_duplicates(ItemUrls(list_pages))
       IN  IF \E p \in 1..Len(list_pages) : ParseRaises(list_pages[p])
           THEN /\ pc' = "Failed" /\ err' = "ParseError"
                /\ UNCHANGED <<fixed_urls, tasks>>
           ELSE IF \E u \in 1..Len(urls) : fix_link_raises(urls[u])
           THEN /\ pc' = "Failed" /\ err' = "LinkFormatError"
                /\ UNCHANGED <<fixed_urls, tasks>>
           ELSE /\ pc' = "FetchingDetailPages" /\ err' = err
                /\ fixed_urls' = FixAll(urls)
                /\ tasks' = [t \in 1..Len(urls) |-> Task("queued", NoBody)]
    /\ UNCHANGED <<sr, main_url, i, inflight, gets, store, k, lst, out, again>>

Running(ts) == { t \in 1..Len(ts) : ts[t].st = "running" }

\* The pool works from process_map's call until the executor is shut down.
\* When a result raises out of process_map, the executor's shutdown waits for
\* the calls still running, and a queued call not yet cancelled may still be
\* taken by a worker: the pool goes on after the run has failed there.
PoolOpen == pc = "FetchingDetailPages" \/ (pc = "Failed" /\ tasks # <<>>)

\* a free worker of the pool takes the next queued call (the call queue is
\* first in, first out) and scrape_one_link issues its GET
TaskStart ==
    /\ PoolOpen
    /\ Cardinality(Running(tasks)) < Pools
    /\ \E t \in 1..Len(tasks) :
          /\ tasks[t].st = "queued"
          /\ \A u \in 1..(t - 1) : tasks[u].st # "queued"
          /\ tasks' = [tasks EXCEPT ![t].st = "running"]
          /\ inflight' = inflight \cup { fixed_urls[t] }
          /\ gets' = Append(gets, [kind |-> "detail", url |-> fixed_urls[t]])
    /\ UNCHANGED <<pc, sr, main_url, i, store, fixed_urls, k, err, lst, out, again>>

\* scrape_one_link returns response.text, of whatever status
TaskReturn ==
    /\ PoolOpen
    /\ \E t \in Running(tasks) :
          /\ \E resp \in DetailResponses(fixed_urls[t]) :
                tasks' = [tasks EXCEPT ![t] = Task("done", resp)]
          /\ inflight' = { fixed_urls[u] : u \in Running(tasks) \ {t} }
    /\ UNCHANGED <<pc, sr, main_url, i, gets, store, fixed_urls, k, err, lst, out, again>>

\* requests.get raises inside a worker: the future holds the exception
TaskRaise ==
    /\ PoolOpen
    /\ \E t \in Running(tasks) :
          /\ tasks' = [tasks EXCEPT ![t].st = "raised"]
          /\ inflight' = { fixed_urls[u] : u \in Running(tasks) \ {t} }
    /\ UNCHANGED <<pc, sr, main_url, i, gets, store, fixed_urls, k, err, lst, out, again>>

\* process_map collects the results in input order: the first future (in
\* that order) that is not done holds an exception, which leaves run()
PoolRaise ==
    /\ pc = "FetchingDetailPages"
    /\ \E t \in 1..Len(tasks) :
          /\ tasks[t].st = "raised"
          /\ \A u \in 1..(t - 1) : tasks[u].st = "done"
    /\ pc' = "Failed"
    /\ err' = "FetchError"
    /\ UNCHANGED <<sr, main_url, i, inflight, gets, store, fixed_urls, tasks, k, lst, out, again>>

\* process_map returns once some future has a result (a mutant)
PoolReturnedEarly(ts) == ts = <<>> \/ \E t \in 1..Len(ts) : ts[t].st = "done"

\* process_map returns the list of results: every future has its result
PoolReturned(ts) == \A t \in 1..Len(ts) : ts[t].st = "done"

\* content: the results in the order of fixed_urls
Content(ts) == [t \in 1..Len(ts) |-> ts[t].body]

\* enumerate(content) counting from 1 (a mutant)
DetailIndexFromOne(n) == n + 1

\* enumerate(content): the index of the item after n saved ones
DetailIndex(n) == n

\* the enumerate loop is over after the last item but one (a mutant)
SaveLoopDoneEarly(n, ts) == n >= Len(ts) - 1

SaveLoopDone(n, ts) == n >= Len(ts)

\* one turn of `for i, c in enumerate(content): save_detail_page(c, i, run_id)`
SaveDetailPage ==
    /\ pc = "FetchingDetailPages"
    /\ PoolReturned(tasks)
    /\ ~SaveLoopDone(k, tasks)
    /\ store' = save_detail_page(store, Content(tasks)[k + 1], DetailIndex(k), run_id)
    /\ k' = k + 1
    /\ UNCHANGED <<pc, sr, main_url, i, inflight, gets, fixed_urls, tasks, err, lst, out, again>>

\* _get_pages returns and run() goes on to data_extractor.extract_data
ExtractData ==
    /\ pc = "FetchingDetailPages"
    /\ PoolReturned(tasks)
    /\ SaveLoopDone(k, tasks)
    /\ pc' = "Done"
    /\ UNCHANGED <<sr, main_url, i, inflight, gets, store, fixed_urls, tasks, k, err, lst, out, again>>

Next ==
    \/ Run
    \/ ListGet
    \/ ListResponse
    \/ ListRaise
    \/ ExtractLinks
    \/ DispatchDetailPages
    \/ TaskStart
    \/ TaskReturn
    \/ TaskRaise
    \/ PoolRaise
    \/ SaveDetailPage
    \/ ExtractData

Spec == Init /\ [][Next]_vars


\* ------------------------------------------- remove_duplicates on its own
Urls3 == {UrlA, UrlB, UrlC}

Lists == UNION { [1..n -> Urls3] : n \in 0..MaxLen }

InitDedup ==
    /\ sr \in { r \in RunRequests : r.page_start = 1 /\ r.number_of_pages = 1 }
    /\ IdleState
    /\ lst \in Lists /\ out = <<>> /\ again = <<>>

Dedup ==
    /\ pc = "Idle"
    /\ out' = remove_duplicates(lst)
    /\ pc' = "deduped"
    /\ UNCHANGED <<sr, main_url, i, inflight, gets, store, fixed_urls, tasks, k, err, lst, again>>

DedupAgain ==
    /\ pc = "deduped"
    /\ again' = remove_duplicates(out)
    /\ pc' = "again"
    /\ UNCHANGED <<sr, main_url, i, inflight, gets, store, fixed_urls, tasks, k, err, lst, out>>

NextDedup == Dedup \/ DedupAgain

SpecDedup == InitDedup /\ [][NextDedup]_vars

\* ------------------------------------------- _build_main_query_url on its own
AreaBounds == {None, Some(0), Some(50)}

UrlRequests ==
    { r \in { Request("amsterdam", w, f, 1, 1, pmin, pmax, amin, amax, d, so, pt) :
                 w \in {"buy", "rent"}, f \in BOOLEAN,
                 pmin \in {None, Some(500)}, pmax \in {None, Some(400), Some(2000)},
                 amin \in AreaBounds, amax \in AreaBounds,
                 d \in {None, Some(3)}, so \in {None, Some("date_down")},
                 pt \in { <<>>, <<"house">>, <<"house", ",", "apartment">> } } :
        ValidRequest(r) }

InitUrl ==
    /\ sr \in UrlRequests
    /\ IdleState
    /\ lst = <<>> /\ out = <<>> /\ again = <<>>

BuildUrl ==
    /\ pc = "Idle"
    /\ main_url' = build_main_query_url(sr)
    /\ pc' = "Built"
    /\ UNCHANGED <<sr, i, inflight, gets, store, fixed_urls, tasks, k, err, lst, out, again>>

SpecUrl == InitUrl /\ [][BuildUrl]_vars

\* ------------------------------------------------------------------- claims
GetsOf(kind) == SelectSeq(gets, LAMBDA g : g.kind = kind)

ListRange == sr.page_start .. (sr.page_start + sr.number_of_pages - 1)

ListRecords == Records(store, "list", run_id)

DetailRecords == Records(store, "detail", run_id)

NoRepeat(s) == \A a, b \in 1..Len(s) : a # b => s[a] # s[b]

\* C1: when the detail phase of a run has completed, the detail GETs issued
\* are exactly one per position of the extracted canonical URL sequence (the
\* sequence computed from the stored list pages), and the detail records of
\* the run are exactly N, indexed 0..N-1, the record at index t-1 holding the
\* body returned to the GET of the t-th URL.
C1_DetailRecordsInInputOrder ==
    pc = "Done" =>
        LET n == Len(fixed_urls)
            d == GetsOf("detail")
        IN  /\ fixed_urls =
                 FixAll(remove_duplicates(ItemUrls(get_list_pages(store, run_id))))
            /\ Len(d) = n
            /\ \A t \in 1..n : d[t].url = fixed_urls[t]
            /\ \A t \in 1..n : tasks[t].body \in DetailResponses(fixed_urls[t])
            /\ DetailRecords =
                 { PageRecord(run_id, "detail", t - 1, tasks[t].body) : t \in 1..n }
            /\ Cardinality(DetailRecords) = n

\* two list pages of three URLs with one overlap: five GETs, records 0..4
C1_Witness ==
    /\ pc = "Done"
    /\ get_list_pages(store, run_id) =
          << Body(200, "ok", <<UrlA, UrlB, UrlC>>), Body(200, "ok", <<UrlC, UrlD, UrlE>>) >>
    /\ Len(GetsOf("detail")) = 5
    /\ { r.index : r \in DetailRecords } = 0..4
    /\ \E r \in DetailRecords : r.body.status = 404

\* C2: the list-page GETs are those of page_start, page_start+1, ... in
\* increasing order, each to the main URL with &search_result=<i> appended,
\* at most one request is in flight while list pages are fetched, the page of
\* each earlier request is stored under its index before the next request is
\* issued, and once the list phase is over there were exactly
\* number_of_pages such GETs and every page of the range is stored.
C2_ListPagesSequential ==
    LET l == GetsOf("list")
    IN  /\ pc = "FetchingListPages" => Cardinality(inflight) <= 1
        /\ \A j \in 1..Len(l) :
              l[j].url = build_main_query_url(sr)
                            \o <<"&search_result=", ToString(sr.page_start + j - 1)>>
        /\ Len(l) <= sr.number_of_pages
        /\ \A j \in 1..(Len(l) - 1) :
              \E r \in ListRecords : r.index = sr.page_start + j - 1
        /\ pc \in {"ExtractingLinks", "FetchingDetailPages", "Done"} =>
              /\ Len(l) = sr.number_of_pages
              /\ { r.index : r \in ListRecords } = ListRange
              /\ Cardinality(ListRecords) = sr.number_of_pages

C2_Witness ==
    /\ pc = "ExtractingLinks"
    /\ sr.page_start = 2 /\ sr.number_of_pages = 2
    /\ Len(GetsOf("list")) = 2

\* C3: the canonical detail URLs handed to the detail fetch hold no URL twice.
C3_CanonicalUrlsDuplicateFree ==
    pc \in {"FetchingDetailPages", "Done"} => NoRepeat(fixed_urls)

\* C4: a GET that fails or is answered with a non-success status fails the
\* run: the body of such a response is never stored as a page record of the
\* run, and the run does not reach Done after one.
C4_FailedGetAbortsRun ==
    /\ \A r \in ListRecords \cup DetailRecords : r.body.status = 200
    /\ pc = "Done" => \A t \in 1..Len(tasks) :
                         tasks[t].st = "done" /\ tasks[t].body.status = 200
    /\ (\E t \in 1..Len(tasks) : tasks[t].st = "raised") => pc # "Done"

StoredPageWithoutItemList ==
    \E r \in ListRecords : r.body.kind \in {"noblock", "malformed"}

\* link extraction has run: the run is past ExtractingLinks, and did not end
\* in the list loop (a run that failed with FetchError before any task
\* existed failed there)
ExtractionRan ==
    \/ pc \in {"FetchingDetailPages", "Done"}
    \/ pc = "Failed" /\ (err # "FetchError" \/ tasks # <<>>)

\* C5: with a stored list page of the run that has no ld+json block or a
\* malformed one, link extraction ends the run in ParseError; no detail GET
\* is ever issued and no detail record is stored.
C5_MissingBlockIsParseError ==
    StoredPageWithoutItemList =>
        /\ GetsOf("detail") = <<>>
        /\ DetailRecords = {}
        /\ fixed_urls = <<>>
        /\ ExtractionRan => pc = "Failed" /\ err = "ParseError"

\* a page without the block beside a page with item URLs
C5_Witness ==
    /\ pc = "Failed" /\ err = "ParseError"
    /\ \E r \in ListRecords : r.body.kind = "noblock"
    /\ \E r \in ListRecords : r.body.kind = "ok" /\ r.body.urls # <<>>

FirstIndex(s, x) == CHOOSE j \in 1..Len(s) : s[j] = x /\ \A h \in 1..(j - 1) : s[h] # x

\* C6: remove_duplicates returns each distinct input string exactly once, in
\* the order of first occurrence ([a, b, a, c, b] gives [a, b, c]), and
\* applied to its own output returns it unchanged.
C6_RemoveDuplicatesStable ==
    /\ pc \in {"deduped", "again"} =>
          /\ { out[j] : j \in 1..Len(out) } = { lst[j] : j \in 1..Len(lst) }
          /\ NoRepeat(out)
          /\ \A a, b \in 1..Len(out) :
                a < b => FirstIndex(lst, out[a]) < FirstIndex(lst, out[b])
          /\ lst = <<UrlA, UrlB, UrlA, UrlC, UrlB>> => out = <<UrlA, UrlB, UrlC>>
    /\ pc = "again" => again = out

C6_Witness ==
    /\ pc = "again"
    /\ lst = <<UrlA, UrlB, UrlA, UrlC, UrlB>>
    /\ again = <<UrlA, UrlB, UrlC>>

\* the floor_area parameter as the price parameter is written: an unset
\* bound is the empty string
ExpectedFloorArea(r) ==
    <<"&floor_area=", "%22">>
        \o (IF r.min_floor_area = None THEN <<>> ELSE <<ToString(r.min_floor_area[1])>>)
        \o <<"-">>
        \o (IF r.max_floor_area = None THEN <<>> ELSE <<ToString(r.max_floor_area[1])>>)
        \o <<"%22">>

\* C7: the built URL holds &floor_area=%22<min>-<max>%22 if and only if at
\* least one floor-area bound is set (not None), a bound of 0 included.
C7_FloorAreaIffSet ==
    pc = "Built" =>
        /\ Contains(main_url, ExpectedFloorArea(sr))
              <=> (sr.min_floor_area # None \/ sr.max_floor_area # None)
        /\ Contains(main_url, <<"&floor_area=">>)
              <=> (sr.min_floor_area # None \/ sr.max_floor_area # None)

\* C8: the built URL never holds a raw quote or a raw bracket.
C8_NoRawQuoteOrBracket ==
    pc = "Built" => \A j \in 1..Len(main_url) : main_url[j] \notin {"\"", "[", "]"}

PhaseSteps ==
    { <<"Idle", "FetchingListPages">>, <<"FetchingListPages", "ExtractingLinks">>,
      <<"ExtractingLinks", "FetchingDetailPages">>, <<"FetchingDetailPages", "Done">>,
      <<"FetchingListPages", "Failed">>, <<"ExtractingLinks", "Failed">>,
      <<"FetchingDetailPages", "Failed">> }

\* every list page of the range is fetched and saved
ListPagesComplete ==
    /\ Len(GetsOf("list")) = sr.number_of_pages
    /\ { r.index : r \in ListRecords } = ListRange

ExtractedLinks == FixAll(remove_duplicates(ItemUrls(get_list_pages(store, run_id))))

AllDetailRecordsSaved ==
    /\ { r.index : r \in DetailRecords } = 0..(Len(fixed_urls) - 1)
    /\ Cardinality(DetailRecords) = Len(fixed_urls)

\* C9: the phase changes only along Idle -> FetchingListPages ->
\* ExtractingLinks -> FetchingDetailPages -> Done (or to Failed, where it
\* stays); a detail GET is issued and a detail record exists only from
\* FetchingDetailPages on, which is entered only with every list page of the
\* range fetched and saved and with the links extracted from the stored
\* pages; Done is entered only with every detail record saved.
C9_PhaseOrder ==
    /\ [][pc' # pc =>
            /\ <<pc, pc'>> \in PhaseSteps
            /\ pc' = "FetchingDetailPages" =>
                  /\ ListPagesComplete
                  /\ fixed_urls' = ExtractedLinks
                  /\ store' = store /\ gets' = gets
            /\ pc' = "Done" =>
                  /\ AllDetailRecordsSaved
                  /\ store' = store /\ fixed_urls' = fixed_urls]_vars
    /\ [](pc \in {"Idle", "FetchingListPages", "ExtractingLinks"} =>
             GetsOf("detail") = <<>> /\ DetailRecords = {})
    /\ [](pc = "Done" => AllDetailRecordsSaved)

C9_Witness ==
    /\ pc = "Done"
    /\ sr.number_of_pages = 2
    /\ Len(fixed_urls) >= 2

\* C10: a detail record of the run exists only once every fetch task has
\* returned a body; with a task that raised there is none, and the list
\* pages of the run stay as they were saved (all of the range, unchanged
\* from then on).
C10_DetailStorageAllOrNothing ==
    /\ [](DetailRecords # {} => \A t \in 1..Len(tasks) : tasks[t].st = "done")
    /\ []((\E t \in 1..Len(tasks) : tasks[t].st = "raised") =>
             /\ DetailRecords = {}
             /\ { r.index : r \in ListRecords } = ListRange)
    /\ [][pc \notin {"Idle", "FetchingListPages"} => ListRecords' = ListRecords]_vars

\* a task raised after another had returned its body
C10_Witness ==
    /\ pc = "Failed"
    /\ \E t \in 1..Len(tasks) : tasks[t].st = "raised"
    /\ \E t \in 1..Len(tasks) : tasks[t].st = "done"
    /\ Cardinality(ListRecords) = 2
    /\ DetailRecords = {}

=============================================================================
